---- MODULE Spec2Model ----
(***************************************************************************)
(* Model of the secure-upload workflow: the App component (page and        *)
(* selection state, the processing timeout), the FileUpload component      *)
(* (validation, the candidate collection, the simulated upload timers) and *)
(* the ProcessingSettings component (the configuration draft and its       *)
(* submission).                                                            *)
(*                                                                         *)
(* React handlers and timer callbacks run to completion one at a time, so  *)
(* each is one action.  Timer delays are not modelled: a scheduled         *)
(* callback may fire at any later step (timeouts of equal delay fire in    *)
(* the order they were scheduled).  A component's state exists while the   *)
(* component is rendered; it is created afresh on every mount.             *)
(***************************************************************************)
EXTENDS Integers, Sequences, FiniteSets, TLC

VARIABLES
    isLoggedIn,     \* App: useState(false)
    username,       \* App: useState("")
    currentPage,    \* App: useState<Page>("upload")
    selectedFile,   \* App: useState<File | null>(null)
    files,          \* FileUpload: useState<UploadedFile[]>([])
    timers,         \* FileUpload: the running setInterval closures (history: whether
                    \*   the record of the closure's id was removed by removeFile)
    draft,          \* ProcessingSettings: encryptEnabled, password, compressEnabled
    pending,        \* App: the setTimeout callbacks of handleProcessingStart in flight
                    \*   (history: the candidate selected when each was scheduled,
                    \*   and whether the session it was scheduled in has ended)
    nextId,         \* the next fresh candidate id
    event,          \* history: the last handler or callback that ran, and its outcome
    profile,        \* ProfileSection: profileImage, errors.profileImage, and the
                    \*   FileReaders in flight
    arg,            \* input of the function under check
    ret             \* its result

vars == <<isLoggedIn, username, currentPage, selectedFile, files, timers, draft,
          pending, nextId, event, profile, arg, ret>>

appVars == <<isLoggedIn, username, currentPage, selectedFile>>
\* What the workflow handlers never touch: ProfileSection shares no state with
\* the workflow and is followed in a specification of its own.
pureVars == <<arg, ret, profile>>

---------------------------------------------------------------------------
(* Bounds of the model *)

MaxIds == 2         \* candidates created over a behaviour
MaxBatch == 2       \* files offered in one selection
MaxPending == 2     \* processing timeouts in flight
MaxPwLen == 6       \* letters of a typed password

---------------------------------------------------------------------------
(* Values *)

Null == "null"                 \* validateFile's null (no error)
Undefined == << "undefined" >>  \* config.password when encryption is off

\* selectedFile = null
NoFile == [oid |-> 0, name |-> "", size |-> 0, type |-> ""]

MAX_FILE_SIZE == 10 * 1024 * 1024

ALLOWED_FILE_TYPES ==
    << "image/png", "image/jpeg", "image/jpg", "image/gif", "image/webp",
       "application/pdf", "application/msword",
       "application/vnd.openxmlformats-officedocument.wordprocessingml.document",
       "text/plain", "application/zip" >>

Includes(list, x) == \E i \in DOMAIN list : list[i] = x

TypeNotAllowed == "File type not allowed"
SizeExceeds == "File size exceeds 10MB limit"

UPLOAD_STEP == 10
UPLOAD_DONE == 100
MIN_PASSWORD_LENGTH == 6

\* validateFile with the two rules in the other order.
validateFileSizeFirst(file) ==
    IF file.size > MAX_FILE_SIZE THEN SizeExceeds
    ELSE IF ~Includes(ALLOWED_FILE_TYPES, file.type) THEN TypeNotAllowed
    ELSE Null

\* validateFile rejecting a file of exactly the maximum size.
validateFileSizeInclusive(file) ==
    IF ~Includes(ALLOWED_FILE_TYPES, file.type) THEN TypeNotAllowed
    ELSE IF file.size >= MAX_FILE_SIZE THEN SizeExceeds
    ELSE Null

\* validateFile(file): the type rule, then the size rule.
validateFile(file) ==
    IF ~Includes(ALLOWED_FILE_TYPES, file.type) THEN TypeNotAllowed
    ELSE IF file.size > MAX_FILE_SIZE THEN SizeExceeds
    ELSE Null

---------------------------------------------------------------------------
(* Inputs *)

\* File descriptors offered to the intake in the workflow specification.
Descriptors ==
    { [name |-> "a.png", size |-> 1024, type |-> "image/png"],
      [name |-> "", size |-> 1024, type |-> "image/png"],
      [name |-> "x.exe", size |-> 1024, type |-> "application/x-msdownload"],
      [name |-> "big.pdf", size |-> MAX_FILE_SIZE + 1, type |-> "application/pdf"] }

Letters == << "a", "b", "c", "d", "e", "f", "g", "h" >>

Pad(n) == [i \in 1..n |-> " "]

\* Typed passwords: none, "abc", and the lengths around the minimum up to
\* MaxPwLen, the shortest of them also behind a blank (" abcde").
Passwords ==
    { SubSeq(Letters, 1, k) : k \in {0, 3} \cup ((MIN_PASSWORD_LENGTH - 1)..MaxPwLen) }
    \cup { Pad(1) \o SubSeq(Letters, 1, MIN_PASSWORD_LENGTH - 1) }

RECURSIVE TrimLeft(_)
TrimLeft(s) == IF s # <<>> /\ Head(s) = " " THEN TrimLeft(Tail(s)) ELSE s

RECURSIVE TrimRight(_)
TrimRight(s) ==
    IF s # <<>> /\ s[Len(s)] = " " THEN TrimRight(SubSeq(s, 1, Len(s) - 1)) ELSE s

\* String.prototype.trim
Trim(s) == TrimRight(TrimLeft(s))

---------------------------------------------------------------------------
(* App: what is rendered *)

\* The render of App without the gate of the complete page.
ViewOfNoCompleteGate(logged, page, sel) ==
    IF ~logged THEN "login"
    ELSE IF page = "processing" /\ sel # NoFile THEN "processing"
    ELSE IF page = "profile" THEN "profile"
    ELSE "upload"

\* The render of App without its login gate.
ViewOfNoLoginGate(logged, page, sel) ==
    IF page = "processing" /\ sel # NoFile THEN "processing"
    ELSE IF page = "profile" THEN "profile"
    ELSE IF page = "complete" /\ sel # NoFile THEN "complete"
    ELSE "upload"

\* The render of App with a complete page that does not ask for a selected file.
ViewOfCompleteUngated(logged, page, sel) ==
    IF ~logged THEN "login"
    ELSE IF page = "processing" /\ sel # NoFile THEN "processing"
    ELSE IF page = "profile" THEN "profile"
    ELSE IF page = "complete" THEN "complete"
    ELSE "upload"

\* The render of App: the login gate, then the page gates in order.
ViewOf(logged, page, sel) ==
    IF ~logged THEN "login"
    ELSE IF page = "processing" /\ sel # NoFile THEN "processing"
    ELSE IF page = "profile" THEN "profile"
    ELSE IF page = "complete" /\ sel # NoFile THEN "complete"
    ELSE "upload"

View == ViewOf(isLoggedIn, currentPage, selectedFile)

\* The stage of the workflow that is presented.
Stage ==
    CASE View = "processing" -> "Configuring"
      [] View = "complete" -> "Completed"
      [] View = "upload" -> "Intake"
      [] OTHER -> "None"

\* ProfileSection's useState initial values (no image, no error), no reader.
InitialProfile == [image |-> NoFile, error |-> "", readers |-> {}]

InitialDraft == [encryptEnabled |-> FALSE, password |-> <<>>, compressEnabled |-> FALSE]

\* Component state after an App state change: kept while the component stays
\* rendered, created afresh when it is mounted, gone when it is unmounted.
\* The intervals of an unmounted FileUpload keep firing until their own count
\* reaches 100, but their setFiles is that of the unmounted component and sets
\* nothing: they are not followed further.
\* Rendered with a ProcessingSettings whose state outlives its unmounting.
RenderedKeepsDraft(newView) ==
    /\ files' = IF View = "upload" /\ newView = "upload" THEN files ELSE <<>>
    /\ timers' = IF View = "upload" /\ newView = "upload" THEN timers ELSE {}
    /\ draft' = draft

Rendered(newView) ==
    /\ files' = IF View = "upload" /\ newView = "upload" THEN files ELSE <<>>
    /\ timers' = IF View = "upload" /\ newView = "upload" THEN timers ELSE {}
    /\ draft' = IF View = "processing" /\ newView = "processing" THEN draft
                ELSE InitialDraft

\* The record of a user intent whose handler just ran, and of a timer callback
\* that just ran (which keeps the name of the last user intent).
Ev(op, id, res, cfg) == [op |-> op, id |-> id, res |-> res, cfg |-> cfg, user |-> op]

Cb(op, id, res) == [op |-> op, id |-> id, res |-> res, cfg |-> {}, user |-> event.user]

---------------------------------------------------------------------------
(* App handlers *)

InitApp ==
    /\ isLoggedIn = FALSE
    /\ username = ""
    /\ currentPage = "upload"
    /\ selectedFile = NoFile
    /\ files = <<>>
    /\ timers = {}
    /\ draft = InitialDraft
    /\ pending = <<>>
    /\ nextId = 1
    /\ event = [op |-> "init", id |-> 0, res |-> "", cfg |-> {}, user |-> "init"]
    /\ profile = InitialProfile

Unset == "unset"

Init ==
    /\ InitApp
    /\ arg = NoFile
    /\ ret = Unset

\* LoginPage's onLogin: handleLogin(user)
handleLogin ==
    /\ View = "login"
    /\ username' = "user"
    /\ isLoggedIn' = TRUE
    /\ UNCHANGED <<currentPage, selectedFile>>
    /\ Rendered(ViewOf(TRUE, currentPage, selectedFile))
    /\ event' = Ev("login", 0, "", {})
    /\ UNCHANGED <<pending, nextId, pureVars>>

\* The Logout buttons of the upload page and of CompletePage.
handleLogout ==
    /\ View \in {"upload", "complete"}
    /\ isLoggedIn' = FALSE
    /\ username' = ""
    /\ currentPage' = "upload"
    /\ selectedFile' = NoFile
    /\ Rendered(ViewOf(FALSE, "upload", NoFile))
    /\ pending' = [i \in DOMAIN pending |-> [pending[i] EXCEPT !.ended = TRUE]]
    /\ event' = Ev("logout", 0, "", {})
    /\ UNCHANGED <<nextId, pureVars>>

\* handleFileSelect behind a "Process File" button shown for every record.
handleFileSelectAnyStatus(i) ==
    /\ View = "upload"
    /\ i \in DOMAIN files
    /\ selectedFile' = files[i].file
    /\ currentPage' = "processing"
    /\ UNCHANGED <<isLoggedIn, username>>
    /\ Rendered(ViewOf(isLoggedIn, "processing", files[i].file))
    /\ event' = Ev("select", files[i].id, "", {})
    /\ UNCHANGED <<pending, nextId, pureVars>>

\* FileUpload's "Process File" button, shown for a record of status success.
handleFileSelect(i) ==
    /\ View = "upload"
    /\ i \in DOMAIN files
    /\ files[i].status = "success"
    /\ selectedFile' = files[i].file
    /\ currentPage' = "processing"
    /\ UNCHANGED <<isLoggedIn, username>>
    /\ Rendered(ViewOf(isLoggedIn, "processing", files[i].file))
    /\ event' = Ev("select", files[i].id, "", {})
    /\ UNCHANGED <<pending, nextId, pureVars>>

\* ProcessingSettings' "Cancel and go back": onBack
handleProcessingBack ==
    /\ View = "processing"
    /\ currentPage' = "upload"
    /\ UNCHANGED <<isLoggedIn, username, selectedFile>>
    /\ Rendered(ViewOf(isLoggedIn, "upload", selectedFile))
    /\ event' = Ev("back", selectedFile.oid, "", {})
    /\ UNCHANGED <<pending, nextId, pureVars>>

\* handleProcessAnother without setSelectedFile(null).
handleProcessAnotherKeepsFile ==
    /\ View = "complete"
    /\ currentPage' = "upload"
    /\ UNCHANGED <<isLoggedIn, username, selectedFile>>
    /\ Rendered(ViewOf(isLoggedIn, "upload", selectedFile))
    /\ event' = Ev("another", selectedFile.oid, "", {})
    /\ UNCHANGED <<pending, nextId, pureVars>>

\* CompletePage's "process another"
handleProcessAnother ==
    /\ View = "complete"
    /\ selectedFile' = NoFile
    /\ currentPage' = "upload"
    /\ UNCHANGED <<isLoggedIn, username>>
    /\ Rendered(ViewOf(isLoggedIn, "upload", NoFile))
    /\ event' = Ev("another", selectedFile.oid, "", {})
    /\ UNCHANGED <<pending, nextId, pureVars>>

\* The Profile button of the upload page.
handleViewProfile ==
    /\ View = "upload"
    /\ currentPage' = "profile"
    /\ UNCHANGED <<isLoggedIn, username, selectedFile>>
    /\ Rendered(ViewOf(isLoggedIn, "profile", selectedFile))
    /\ event' = Ev("profile", 0, "", {})
    /\ UNCHANGED <<pending, nextId, pureVars>>

\* ProfilePage's "Back to Dashboard"
handleBackToDashboard ==
    /\ View = "profile"
    /\ currentPage' = "upload"
    /\ UNCHANGED <<isLoggedIn, username, selectedFile>>
    /\ Rendered(ViewOf(isLoggedIn, "upload", selectedFile))
    /\ event' = Ev("dashboard", 0, "", {})
    /\ UNCHANGED <<pending, nextId, pureVars>>

\* The callback of handleProcessingStart's setTimeout: setCurrentPage("complete")
ProcessingTimeout ==
    /\ pending # <<>>
    /\ currentPage' = "complete"
    /\ UNCHANGED <<isLoggedIn, username, selectedFile>>
    /\ Rendered(ViewOf(isLoggedIn, "complete", selectedFile))
    /\ pending' = Tail(pending)
    /\ event' = Cb("timeout", Head(pending).cand,
                   IF Head(pending).ended THEN "ended" ELSE "")
    /\ UNCHANGED <<nextId, pureVars>>

---------------------------------------------------------------------------
(* FileUpload *)

\* The FileList of a drop or of the file input (an empty one included).
Batches == UNION { [1..n -> Descriptors] : n \in 0..MaxBatch }

\* The File object of the k-th file of a batch, and its UploadedFile record.
\* FileOf with an id made of the position in the batch alone.
FileOfPositionId(batch, k) ==
    [oid |-> k, name |-> batch[k].name, size |-> batch[k].size,
     type |-> batch[k].type]

FileOf(batch, k) ==
    [oid |-> nextId + k - 1, name |-> batch[k].name, size |-> batch[k].size,
     type |-> batch[k].type]

UploadedFileOf(batch, k) ==
    LET file == FileOf(batch, k)
        error == validateFile(file)
    IN  IF error # Null
        THEN [id |-> file.oid, file |-> file, status |-> "error", progress |-> 0,
              error |-> error]
        ELSE [id |-> file.oid, file |-> file, status |-> "uploading", progress |-> 0,
              error |-> Null]

\* simulateUpload with a closure that starts one increment ahead.
simulateUploadFromStep(fileId) == [id |-> fileId, progress |-> UPLOAD_STEP, removed |-> FALSE]

\* simulateUpload(fileId): let progress = 0; setInterval(...)
simulateUpload(fileId) == [id |-> fileId, progress |-> 0, removed |-> FALSE]

\* handleFiles that starts no upload when a file of the batch is rejected.
handleFilesAllOrNothing(batch) ==
    /\ View = "upload"
    /\ nextId + Len(batch) - 1 <= MaxIds
    /\ LET uploadedFiles == [k \in DOMAIN batch |-> UploadedFileOf(batch, k)]
       IN  /\ files' = files \o uploadedFiles
           /\ timers' = timers \cup
                  IF \E j \in DOMAIN batch : uploadedFiles[j].status = "error" THEN {}
                  ELSE { simulateUpload(uploadedFiles[k].id) : k \in DOMAIN batch }
    /\ nextId' = nextId + Len(batch)
    /\ event' = Ev("files", nextId, "", {})
    /\ UNCHANGED <<appVars, draft, pending, pureVars>>

\* handleFiles(newFiles): the drop zone and the file input.
handleFiles(batch) ==
    /\ View = "upload"
    /\ nextId + Len(batch) - 1 <= MaxIds
    /\ LET uploadedFiles == [k \in DOMAIN batch |-> UploadedFileOf(batch, k)]
       IN  /\ files' = files \o uploadedFiles
           /\ timers' = timers \cup
                  { simulateUpload(uploadedFiles[k].id) :
                      k \in { j \in DOMAIN batch : uploadedFiles[j].status = "uploading" } }
    /\ nextId' = nextId + Len(batch)
    /\ event' = Ev("files", nextId, "", {})
    /\ UNCHANGED <<appVars, draft, pending, pureVars>>

\* The map of the interval callback without its test of the id.
MapFilesAnyId(prev, fileId, done, progress) ==
    [i \in DOMAIN prev |->
        IF done THEN [prev[i] EXCEPT !.status = "success", !.progress = UPLOAD_DONE]
        ELSE [prev[i] EXCEPT !.progress = progress]]

\* The map of an interval callback that ends in a simulated network failure.
MapFilesNetworkFailure(prev, fileId, done, progress) ==
    [i \in DOMAIN prev |->
        IF prev[i].id = fileId
        THEN IF done THEN [prev[i] EXCEPT !.status = "error", !.error = "NetworkSimulated"]
             ELSE [prev[i] EXCEPT !.progress = progress]
        ELSE prev[i]]

\* The map of the interval callback with a last patch of the status alone.
MapFilesStatusOnly(prev, fileId, done, progress) ==
    [i \in DOMAIN prev |->
        IF prev[i].id = fileId
        THEN IF done THEN [prev[i] EXCEPT !.status = "success"]
             ELSE [prev[i] EXCEPT !.progress = progress]
        ELSE prev[i]]

\* setFiles(prev => prev.map(f => f.id === fileId ? {...f, ...patch} : f))
MapFiles(prev, fileId, done, progress) ==
    [i \in DOMAIN prev |->
        IF prev[i].id = fileId
        THEN IF done THEN [prev[i] EXCEPT !.status = "success", !.progress = UPLOAD_DONE]
             ELSE [prev[i] EXCEPT !.progress = progress]
        ELSE prev[i]]

\* The interval callback without its clearInterval.
UploadTickNoClear(t) ==
    /\ t \in timers
    /\ LET progress == t.progress + UPLOAD_STEP
       IN  IF progress >= UPLOAD_DONE
           THEN /\ timers' = timers
                /\ files' = MapFiles(files, t.id, TRUE, progress)
           ELSE /\ timers' = (timers \ {t}) \cup {[t EXCEPT !.progress = progress]}
                /\ files' = MapFiles(files, t.id, FALSE, progress)
    /\ event' = Cb("tick", t.id, IF t.removed THEN "removed" ELSE "")
    /\ UNCHANGED <<appVars, draft, pending, nextId, pureVars>>

\* One firing of the interval callback of simulateUpload.  The closure's own
\* progress advances whether or not its record is still in the collection.
UploadTick(t) ==
    /\ t \in timers
    /\ LET progress == t.progress + UPLOAD_STEP
       IN  IF progress >= UPLOAD_DONE
           THEN /\ timers' = timers \ {t}
                /\ files' = MapFiles(files, t.id, TRUE, progress)
           ELSE /\ timers' = (timers \ {t}) \cup {[t EXCEPT !.progress = progress]}
                /\ files' = MapFiles(files, t.id, FALSE, progress)
    /\ event' = Cb("tick", t.id, IF t.removed THEN "removed" ELSE "")
    /\ UNCHANGED <<appVars, draft, pending, nextId, pureVars>>

\* A filter that keeps only the records before the one removed.
FilterFilesBefore(prev, id) ==
    LET at == { i \in DOMAIN prev : prev[i].id = id }
    IN  IF at = {} THEN prev
        ELSE SubSeq(prev, 1, (CHOOSE i \in at : \A j \in at : i <= j) - 1)

\* prev.filter(f => f.id !== id)
FilterFiles(prev, id) == SelectSeq(prev, LAMBDA f : f.id # id)

\* removeFile(id): the X button of a record.
removeFile(i) ==
    /\ View = "upload"
    /\ i \in DOMAIN files
    /\ files' = FilterFiles(files, files[i].id)
    /\ timers' = { [t EXCEPT !.removed = @ \/ t.id = files[i].id] : t \in timers }
    /\ event' = Ev("remove", files[i].id, files[i].status, {})
    /\ UNCHANGED <<appVars, draft, pending, nextId, pureVars>>

---------------------------------------------------------------------------
(* ProcessingSettings *)

\* canProceed asking for a non-empty password only.
canProceedAnyPassword ==
    ~draft.encryptEnabled
    \/ (draft.encryptEnabled /\ Len(Trim(draft.password)) >= 1)

\* const canProceed = !encryptEnabled || (encryptEnabled && password.trim().length >= 6)
canProceed ==
    ~draft.encryptEnabled
    \/ (draft.encryptEnabled /\ Len(Trim(draft.password)) >= MIN_PASSWORD_LENGTH)

\* The encryption toggle: setEncryptEnabled(!enabled)
toggleEncrypt ==
    /\ View = "processing"
    /\ draft' = [draft EXCEPT !.encryptEnabled = ~draft.encryptEnabled]
    /\ event' = Ev("encrypt", selectedFile.oid, "", {})
    /\ UNCHANGED <<appVars, files, timers, pending, nextId, pureVars>>

\* The compression toggle: setCompressEnabled(!enabled)
toggleCompress ==
    /\ View = "processing"
    /\ draft' = [draft EXCEPT !.compressEnabled = ~draft.compressEnabled]
    /\ event' = Ev("compress", selectedFile.oid, "", {})
    /\ UNCHANGED <<appVars, files, timers, pending, nextId, pureVars>>

\* The password input, rendered while encryptEnabled: setPassword(e.target.value)
setPassword(p) ==
    /\ View = "processing"
    /\ draft.encryptEnabled
    /\ draft' = [draft EXCEPT !.password = p]
    /\ event' = Ev("password", selectedFile.oid, "", {})
    /\ UNCHANGED <<appVars, files, timers, pending, nextId, pureVars>>

\* A reset that leaves the typed password in place.
handleResetKeepsPassword ==
    /\ View = "processing"
    /\ draft' = [draft EXCEPT !.encryptEnabled = FALSE, !.compressEnabled = FALSE]
    /\ event' = Ev("reset", selectedFile.oid, "", {})
    /\ UNCHANGED <<appVars, files, timers, pending, nextId, pureVars>>

\* "Reset to Default"
handleReset ==
    /\ View = "processing"
    /\ draft' = InitialDraft
    /\ event' = Ev("reset", selectedFile.oid, "", {})
    /\ UNCHANGED <<appVars, files, timers, pending, nextId, pureVars>>

\* The config object with the typed password whatever encryptEnabled is.
ConfigWithTypedPassword ==
    [encrypt |-> draft.encryptEnabled,
     password |-> draft.password,
     compress |-> draft.compressEnabled,
     outputFileName |-> selectedFile.name]

\* The config object built by handleSaveSettings.
Config ==
    [encrypt |-> draft.encryptEnabled,
     password |-> IF draft.encryptEnabled THEN draft.password ELSE Undefined,
     compress |-> draft.compressEnabled,
     outputFileName |-> selectedFile.name]

\* App.handleProcessingStart(settings): schedules the timeout.
handleProcessingStart(settings) ==
    /\ pending' = Append(pending, [cand |-> selectedFile.oid, ended |-> FALSE])
    /\ event' = Ev("save", selectedFile.oid, "Ok", {settings})

\* handleSaveSettings: onProcess(config)
handleSaveSettings == handleProcessingStart(Config)

\* A click on "Save Settings", which is disabled unless canProceed.
SaveSettings ==
    /\ View = "processing"
    /\ IF canProceed
       THEN /\ Len(pending) < MaxPending
            /\ handleSaveSettings
       ELSE /\ event' = Ev("save", selectedFile.oid, "WeakPassword", {})
            /\ UNCHANGED pending
    /\ UNCHANGED <<appVars, files, timers, draft, nextId, pureVars>>

---------------------------------------------------------------------------
(* The workflow specification *)

Next ==
    \/ handleLogin
    \/ handleLogout
    \/ \E i \in DOMAIN files : handleFileSelect(i)
    \/ handleProcessingBack
    \/ handleProcessAnother
    \/ handleViewProfile
    \/ handleBackToDashboard
    \/ ProcessingTimeout
    \/ \E batch \in Batches : handleFiles(batch)
    \/ \E t \in timers : UploadTick(t)
    \/ \E i \in DOMAIN files : removeFile(i)
    \/ toggleEncrypt
    \/ toggleCompress
    \/ \E p \in Passwords : setPassword(p)
    \/ handleReset
    \/ SaveSettings

Spec == Init /\ [][Next]_vars

\* The browser's event loop runs every due timer callback: a scheduled timeout
\* fires, and an interval that is not cleared keeps firing.
FairSpec ==
    /\ Spec
    /\ WF_vars(ProcessingTimeout)
    /\ WF_vars(\E t \in timers : UploadTick(t))

---------------------------------------------------------------------------
(* validateFile on its own: a descriptor is drawn, then validated *)

ValidateTypes ==
    { ALLOWED_FILE_TYPES[i] : i \in DOMAIN ALLOWED_FILE_TYPES }
    \cup { "application/x-msdownload", "image/svg+xml", "IMAGE/PNG", "" }

ValidateSizes ==
    { 0, 1024, MAX_FILE_SIZE - 1, MAX_FILE_SIZE, MAX_FILE_SIZE + 1, 2 * MAX_FILE_SIZE }

ValidateInputs ==
    { [oid |-> 1, name |-> "a", size |-> sz, type |-> ty] :
        sz \in ValidateSizes, ty \in ValidateTypes }

appState == <<appVars, files, timers, draft, pending, nextId, event, profile>>

InitValidate ==
    /\ InitApp
    /\ arg \in ValidateInputs
    /\ ret = Unset

DrawDescriptor ==
    /\ ret # Unset
    /\ arg' \in ValidateInputs
    /\ ret' = Unset
    /\ UNCHANGED appState

ApplyValidate ==
    /\ ret = Unset
    /\ ret' = validateFile(arg)
    /\ UNCHANGED <<arg, appState>>

NextValidate == DrawDescriptor \/ ApplyValidate

SpecValidate == InitValidate /\ [][NextValidate]_vars

---------------------------------------------------------------------------
(* ProfileSection: the profile image *)

MAX_PROFILE_IMAGE_SIZE == 5 * 1024 * 1024

PROFILE_IMAGE_TYPES == << "image/png", "image/jpeg", "image/jpg", "image/gif" >>

ProfileTypeNotAllowed == "Only PNG, JPG, JPEG, and GIF formats are allowed"
ProfileSizeExceeds == "Image size must be less than 5MB"

\* validateProfileImage with the list and the ceiling of the general intake.
validateProfileImageAsIntake(file) ==
    IF ~Includes(ALLOWED_FILE_TYPES, file.type) THEN ProfileTypeNotAllowed
    ELSE IF file.size > MAX_FILE_SIZE THEN ProfileSizeExceeds
    ELSE Null

\* validateProfileImage(file)
validateProfileImage(file) ==
    IF ~Includes(PROFILE_IMAGE_TYPES, file.type) THEN ProfileTypeNotAllowed
    ELSE IF file.size > MAX_PROFILE_IMAGE_SIZE THEN ProfileSizeExceeds
    ELSE Null

MaxReaders == 1     \* FileReaders in flight

ProfileInputs ==
    { [oid |-> 1, name |-> "p", size |-> sz, type |-> ty] :
        sz \in { 1024, MAX_PROFILE_IMAGE_SIZE, MAX_PROFILE_IMAGE_SIZE + 1,
                 MAX_FILE_SIZE, MAX_FILE_SIZE + 1 },
        ty \in { PROFILE_IMAGE_TYPES[i] : i \in DOMAIN PROFILE_IMAGE_TYPES }
               \cup { "image/webp", "application/pdf", "application/x-msdownload" } }

workflowState == <<appVars, files, timers, draft, pending, nextId, event>>

\* handleProfileImageChange(file): the drop zone and the file input of the image.
handleProfileImageChange(file) ==
    /\ LET error == validateProfileImage(file)
       IN  /\ ret' = error
           /\ IF error # Null
              THEN profile' = [profile EXCEPT !.error = error]
              ELSE /\ Cardinality(profile.readers) < MaxReaders
                   /\ profile' = [profile EXCEPT !.error = "",
                                                 !.readers = @ \cup {file}]
    /\ arg' = file
    /\ UNCHANGED workflowState

\* reader.onloadend: setProfileImage(reader.result)
ReaderLoadEnd(file) ==
    /\ file \in profile.readers
    /\ profile' = [profile EXCEPT !.image = file, !.readers = @ \ {file}]
    /\ UNCHANGED <<arg, ret, workflowState>>

\* removeProfileImage, and the setProfileImage(null) of handleCancel
removeProfileImage ==
    /\ profile.image # NoFile
    /\ profile' = [profile EXCEPT !.image = NoFile]
    /\ UNCHANGED <<arg, ret, workflowState>>

NextProfile ==
    \/ \E file \in ProfileInputs : handleProfileImageChange(file)
    \/ \E file \in ProfileInputs : ReaderLoadEnd(file)
    \/ removeProfileImage

SpecProfile == Init /\ [][NextProfile]_vars

---------------------------------------------------------------------------
(* ProcessingSettings: the estimated size *)

\* Math.round of the rational num/den (den > 0, num >= 0): floor(x + 1/2).
MathRound(num, den) == (2 * num + den) \div (2 * den)

\* Math.floor of the same rational.
MathFloor(num, den) == num \div den

\* getCompressionReduction(), in tenths: 0, or 0.4 while compressEnabled.
getCompressionReduction(compressEnabled) == IF ~compressEnabled THEN 0 ELSE 4

\* getEstimatedSize with Math.floor in place of Math.round.
getEstimatedSizeFloor(fileSize, compressEnabled) ==
    IF ~compressEnabled THEN fileSize
    ELSE MathFloor(fileSize * (10 - getCompressionReduction(compressEnabled)), 10)

\* getEstimatedSize(): Math.round(fileSize * (1 - getCompressionReduction())).
\* The double 1 - 0.4 is the double 0.6, and a product fileSize * 0.6 is an
\* integer or lies 0.2 or 0.4 from one, so for sizes below 2^50 the double
\* arithmetic rounds as the exact tenths do.
getEstimatedSize(fileSize, compressEnabled) ==
    IF ~compressEnabled THEN fileSize
    ELSE MathRound(fileSize * (10 - getCompressionReduction(compressEnabled)), 10)

MaxEstimateSize == 40   \* every size from 0 to this one is estimated

EstimateInputs ==
    { [fileSize |-> n, compressEnabled |-> b] :
        n \in (0..MaxEstimateSize)
              \cup { 1024, MAX_FILE_SIZE - 1, MAX_FILE_SIZE, MAX_FILE_SIZE + 1 },
        b \in BOOLEAN }

NoEstimate == << >>

InitEstimate ==
    /\ InitApp
    /\ arg \in EstimateInputs
    /\ ret = NoEstimate

DrawEstimateInput ==
    /\ arg' \in EstimateInputs
    /\ ret' = NoEstimate
    /\ UNCHANGED appState

ApplyEstimate ==
    /\ ret = NoEstimate
    /\ ret' = << getEstimatedSize(arg.fileSize, arg.compressEnabled) >>
    /\ UNCHANGED <<arg, appState>>

NextEstimate == DrawEstimateInput \/ ApplyEstimate

SpecEstimate == InitEstimate /\ [][NextEstimate]_vars

---------------------------------------------------------------------------
(* CompletePage: the download URL *)

\* Strings are sequences of characters; the fixed prefix is kept as one token.
DOWNLOAD_PREFIX == << "https://files.example.com/download/" >>

\* const fileUrl = `https://files.example.com/download/${fileName}`
fileUrl(fileName) == DOWNLOAD_PREFIX \o fileName

MaxNameLen == 2     \* characters of a file name

NameChars == { "a", "/", "?", "#", "%", " ", "2", "0" }

FileNames == UNION { [1..n -> NameChars] : n \in 0..MaxNameLen }

NoUrl == << >>

InitReference ==
    /\ InitApp
    /\ arg \in FileNames \X FileNames
    /\ ret = NoUrl

DrawFileNames ==
    /\ arg' \in FileNames \X FileNames
    /\ ret' = NoUrl
    /\ UNCHANGED appState

\* CompletePage rendered for each of the two names.
ApplyFileUrl ==
    /\ ret = NoUrl
    /\ ret' = << fileUrl(arg[1]), fileUrl(arg[2]) >>
    /\ UNCHANGED <<arg, appState>>

NextReference == DrawFileNames \/ ApplyFileUrl

SpecReference == InitReference /\ [][NextReference]_vars

---------------------------------------------------------------------------
(* Properties *)

\* C1: a click on Save Settings with encryption on and a password of fewer than
\* 6 characters (the empty one included) fails with WeakPassword: no config is
\* handed over, no timeout is scheduled, page and selection stay as they were.
C1_WeakPasswordRejected ==
    [][ (/\ View = "processing"
         /\ draft.encryptEnabled
         /\ Len(draft.password) < MIN_PASSWORD_LENGTH
         /\ SaveSettings)
        => (/\ event'.res = "WeakPassword"
            /\ event'.cfg = {}
            /\ pending' = pending
            /\ currentPage' = currentPage
            /\ selectedFile' = selectedFile
            /\ Stage' = Stage) ]_vars

C1_Witness ==
    /\ event.op = "save"
    /\ event.res = "WeakPassword"
    /\ View = "processing"
    /\ draft.encryptEnabled
    /\ draft.password = << "a", "b", "c" >>
    /\ pending # <<>>

\* C2: every entry into Completed is made from Configuring, by the timeout of
\* a submission made for the candidate that is active at the entry.
C2_CompletedOnlyBySubmission ==
    [][ (Stage # "Completed" /\ Stage' = "Completed")
        => (/\ Stage = "Configuring"
            /\ pending # <<>>
            /\ pending' = Tail(pending)
            /\ Head(pending).cand = selectedFile'.oid) ]_vars

\* C3: after a cancel out of Configuring, and until the next user intent, a
\* processing timeout that fires leaves the stage Intake.
C3_CancelledTimeoutIsNoOp ==
    [][ (event.user = "back" /\ Stage = "Intake" /\ ProcessingTimeout)
        => Stage' = "Intake" ]_vars

\* C4: while a processing transition started in the current visit to
\* Configuring is pending, no further one is started.
C4_NoSecondPendingTransition ==
    [][ (/\ View = "processing"
         /\ \E i \in DOMAIN pending : pending[i].cand = selectedFile.oid)
        => Len(pending') <= Len(pending) ]_vars

\* C5: while a candidate is the active candidate of the processing or of the
\* complete page, no other candidate becomes the active candidate.
C5_OneActiveCandidate ==
    [][ (/\ isLoggedIn
         /\ currentPage \in {"processing", "complete"}
         /\ selectedFile # NoFile)
        => selectedFile' \in {selectedFile, NoFile} ]_vars

C5_Witness ==
    /\ Stage = "Completed"
    /\ nextId > selectedFile.oid + 1

\* C6: after "process another", and until the next user intent, the stage is
\* Intake, no candidate is active, the collection is empty and no draft is left.
C6_ProcessAnotherClearsAll ==
    event.user = "another"
    => (/\ Stage = "Intake"
        /\ selectedFile = NoFile
        /\ files = <<>>
        /\ draft = InitialDraft)

C6_Witness ==
    /\ event.user = "another"
    /\ event.op = "timeout"

\* C7: a processing timeout scheduled in a session that has ended changes
\* neither the page nor the selection.
C7_EndedSessionTimeoutIsNoOp ==
    [][ (pending # <<>> /\ Head(pending).ended /\ ProcessingTimeout)
        => UNCHANGED <<currentPage, selectedFile>> ]_vars

C9_MonotoneAndAbsorbing ==
    [][ /\ \A i \in DOMAIN files : \A j \in DOMAIN files' :
            files'[j].id = files[i].id
            => /\ files[i].status = "uploading"
                  => files'[j].progress >= files[i].progress
               /\ files[i].status \in {"success", "error"} => files'[j] = files[i]
        /\ \A j \in DOMAIN files' :
            files'[j].status \in {"success", "error"}
            => \A t \in timers' : t.id # files'[j].id ]_vars

C9_Witness ==
    /\ event.op = "tick"
    /\ \E i \in DOMAIN files : files[i].status = "success" /\ files[i].progress = UPLOAD_DONE
    /\ \E i \in DOMAIN files : files[i].status = "uploading" /\ files[i].progress > 0

\* C10: a descriptor whose type is not in the allow-list is rejected for its
\* type, whatever its size.
C10_TypeRuleFirst ==
    (ret # Unset /\ ~Includes(ALLOWED_FILE_TYPES, arg.type)) => ret = TypeNotAllowed

C10_Witness ==
    /\ ret = TypeNotAllowed
    /\ arg.size > MAX_FILE_SIZE


\* C11: a descriptor of an allowed type is rejected as too large exactly when
\* its size exceeds 10 MiB (10485760 bytes), and accepted otherwise.
C11_SizeRuleBoundary ==
    (ret # Unset /\ Includes(ALLOWED_FILE_TYPES, arg.type))
    => /\ (ret = SizeExceeds) <=> (arg.size > 10485760)
       /\ (ret = Null) <=> (arg.size <= 10485760)

C11_Witness ==
    /\ ret = Null
    /\ Includes(ALLOWED_FILE_TYPES, arg.type)
    /\ arg.size = 10485760


\* C12: a file is accepted as profile image exactly when its type is one of the
\* four raster types and its size is at most 5 MiB (5242880 bytes); a rejected
\* file is reported with the reason of the first rule it fails, starts no
\* reader and leaves the current image; the image shown is always an accepted file.
C12_ProfileImageRules ==
    [][ /\ \A file \in ProfileInputs :
            handleProfileImageChange(file)
            => LET raster == file.type \in {"image/png", "image/jpeg", "image/jpg",
                                            "image/gif"}
               IN  /\ (ret' = Null) <=> (raster /\ file.size <= 5242880)
                   /\ ~raster => ret' = ProfileTypeNotAllowed
                   /\ (raster /\ file.size > 5242880) => ret' = ProfileSizeExceeds
                   /\ ret' # Null
                      => /\ profile'.image = profile.image
                         /\ profile'.readers = profile.readers
                         /\ profile'.error = ret'
                   /\ ret' = Null => file \in profile'.readers
        /\ \A file \in profile'.readers \cup ({profile'.image} \ {NoFile}) :
            /\ file.type \in {"image/png", "image/jpeg", "image/jpg", "image/gif"}
            /\ file.size <= 5242880 ]_vars

C12_Witness ==
    /\ profile.image # NoFile
    /\ ret = ProfileSizeExceeds
    /\ arg.type = "image/png"
    /\ arg.size > 5242880
    /\ validateFile(arg) = Null


\* C13: a configuration submitted with both encrypt and compress on carries a
\* field "ordering" whose value is "encrypt-then-compress".
C13_OrderingRecorded ==
    \A config \in event.cfg :
        (event.op = "save" /\ event.res = "Ok" /\ config.encrypt /\ config.compress)
        => /\ "ordering" \in DOMAIN config
           /\ config.ordering = "encrypt-then-compress"


\* C14: with encryption on and a candidate of non-empty name, every click on
\* "Save Settings" with a password of at least 6 characters submits (Ok).
C14_SixCharactersSubmit ==
    [][ (/\ View = "processing"
         /\ draft.encryptEnabled
         /\ Len(draft.password) >= 6
         /\ selectedFile.name # ""
         /\ SaveSettings)
        => (/\ event'.res = "Ok"
            /\ event'.cfg # {}) ]_vars


\* C15: no configuration with an empty outputFileName is handed to
\* handleProcessingStart, and a click on "Save Settings" for a candidate whose
\* name is empty is refused with EmptyOutputName and schedules nothing.
C15_EmptyOutputNameRefused ==
    [][ /\ \A config \in event'.cfg : config.outputFileName # ""
        /\ (View = "processing" /\ selectedFile.name = "" /\ SaveSettings)
           => (/\ event'.res = "EmptyOutputName"
               /\ pending' = pending
               /\ Stage' = Stage) ]_vars


\* The status of candidate c in the collection of FileUpload.
IsUploading(c) ==
    \E i \in DOMAIN files : files[i].id = c /\ files[i].status = "uploading"

HasSucceeded(c) ==
    \E i \in DOMAIN files :
        files[i].id = c /\ files[i].status = "success" /\ files[i].progress = 100

SubmittedPlain(c) ==
    /\ event.op = "save"
    /\ event.res = "Ok"
    /\ selectedFile.oid = c
    /\ ~draft.encryptEnabled
    /\ ~draft.compressEnabled

\* C16: a candidate of an allowed type and a size within the limit is taken up
\* as uploading, not as an error; with no further user intent its upload
\* reaches success at progress 100; "Save Settings" with neither flag set
\* submits {encrypt false, compress false, no password, the candidate's own
\* name}; and with no further user intent the complete page is then reached
\* for that same candidate.
C16_ScenarioA ==
    /\ [](\A i \in DOMAIN files :
            (Includes(ALLOWED_FILE_TYPES, files[i].file.type)
             /\ files[i].file.size <= 10485760)
            => /\ files[i].status \in {"uploading", "success"}
               /\ files[i].error = Null
               /\ (files[i].status = "success") <=> (files[i].progress = 100))
    /\ []((event.op = "save" /\ ~draft.encryptEnabled /\ ~draft.compressEnabled)
          => /\ event.res = "Ok"
             /\ event.cfg = {[encrypt |-> FALSE, compress |-> FALSE,
                              password |-> Undefined,
                              outputFileName |-> selectedFile.name]})
    /\ \A c \in 1..MaxIds :
          /\ (IsUploading(c) /\ event.user = "files")
                ~> (HasSucceeded(c) \/ event.user # "files")
          /\ SubmittedPlain(c)
                ~> ((Stage = "Completed" /\ selectedFile.oid = c)
                    \/ event.user # "save")


\* C17: every step that enters Configuring, or changes the active candidate,
\* makes active a candidate that is in the collection with status success
\* (progress 100, accepted by validateFile) in the state the step is taken
\* from; a record with status error or uploading, and a removed one, is never
\* made active.
C17_OnlySucceededDesignated ==
    [][ ((Stage' = "Configuring" /\ Stage # "Configuring")
         \/ selectedFile' \notin {selectedFile, NoFile})
        => /\ Stage = "Intake"
           /\ \E i \in DOMAIN files :
                /\ files[i].file = selectedFile'
                /\ files[i].status = "success"
                /\ files[i].progress = 100
           /\ validateFile(selectedFile') = Null
           /\ \A t \in timers : t.removed => t.id # selectedFile'.oid ]_vars

C17_Witness ==
    /\ Stage = "Configuring"
    /\ event.op = "select"
    /\ event.id = selectedFile.oid
    /\ nextId > MaxIds


\* C18 as stated: the estimate is floor(fileSize * 6 / 10) when compression is
\* on and fileSize when it is off.
C18_EstimateIsFloor ==
    ret # NoEstimate
    => ret[1] = IF arg.compressEnabled THEN (arg.fileSize * 6) \div 10
                ELSE arg.fileSize

\* C18, amended: the estimate is fileSize * 6 / 10 rounded to the nearest
\* integer when compression is on (the floor, or one more than the floor when
\* the remainder of fileSize * 6 by 10 is 6 or 8), and fileSize when it is off.
C18_EstimateIsNearest ==
    ret # NoEstimate
    => LET floor == (arg.fileSize * 6) \div 10
           rem == (arg.fileSize * 6) % 10
       IN  ret[1] = IF ~arg.compressEnabled THEN arg.fileSize
                    ELSE IF rem > 5 THEN floor + 1
                    ELSE floor

C18_Witness ==
    /\ ret = << 2 >>
    /\ arg.compressEnabled
    /\ arg.fileSize = 3


\* Reading a locator (RFC 3986): the path segment that follows the prefix ends
\* at the first "/", "?" or "#"; in it a space may not occur and "%" opens an
\* escape of two hexadecimal digits, which stands for one character.
HexDigits == { "0", "2", "a" }

SegmentEnd(rest) ==
    LET stops == { i \in DOMAIN rest : rest[i] \in {"/", "?", "#"} }
    IN  IF stops = {} THEN Len(rest)
        ELSE (CHOOSE i \in stops : \A j \in stops : i <= j) - 1

\* The character an escape stands for, by its name where it is not printable.
Escaped(x, y) ==
    CASE <<x, y>> = <<"0", "0">> -> "NUL"
      [] <<x, y>> = <<"0", "2">> -> "STX"
      [] <<x, y>> = <<"0", "a">> -> "LF"
      [] <<x, y>> = <<"2", "0">> -> " "
      [] <<x, y>> = <<"2", "2">> -> "QUOTE"
      [] <<x, y>> = <<"2", "a">> -> "*"
      [] <<x, y>> = <<"a", "0">> -> "NBSP"
      [] <<x, y>> = <<"a", "2">> -> "CENT"
      [] <<x, y>> = <<"a", "a">> -> "ORDF"

\* What reading gives when the text is no locator of one segment.
Malformed == << "malformed" >>

RECURSIVE PercentDecode(_)
PercentDecode(seg) ==
    IF seg = << >> THEN << >>
    ELSE IF Head(seg) = "%"
         THEN IF Len(seg) >= 3 /\ seg[2] \in HexDigits /\ seg[3] \in HexDigits
              THEN LET rest == PercentDecode(SubSeq(seg, 4, Len(seg)))
                   IN  IF rest = Malformed THEN Malformed
                       ELSE << Escaped(seg[2], seg[3]) >> \o rest
              ELSE Malformed
         ELSE IF Head(seg) = " " THEN Malformed
         ELSE LET rest == PercentDecode(Tail(seg))
              IN  IF rest = Malformed THEN Malformed
                  ELSE << Head(seg) >> \o rest

\* The name read back from a reference: the decoded single segment after the
\* prefix, when nothing follows that segment.
NameOfUrl(url) ==
    LET rest == Tail(url)
    IN  IF Head(url) # "https://files.example.com/download/" THEN Malformed
        ELSE IF SegmentEnd(rest) # Len(rest) THEN Malformed
        ELSE PercentDecode(rest)

\* C19: equal names give equal references and distinct names distinct ones,
\* and every name, reserved characters included, occupies exactly one path
\* segment after the prefix and is read back from its reference.
C19_ReferenceWellFormed ==
    ret # NoUrl
    => /\ (arg[1] = arg[2]) <=> (ret[1] = ret[2])
       /\ NameOfUrl(ret[1]) = arg[1]
       /\ NameOfUrl(ret[2]) = arg[2]


\* C20: a second click on "Save Settings" that follows a first with nothing in
\* between returns what the first returned (the same configuration or the same
\* error) and changes nothing: no further timeout is scheduled and the page,
\* the active candidate and the draft stay as they are.
C20_SecondBuildHasNoEffect ==
    [][ (event.op = "save" /\ SaveSettings)
        => /\ event'.res = event.res
           /\ event'.cfg = event.cfg
           /\ pending' = pending
           /\ draft' = draft
           /\ appVars' = appVars ]_vars


\* C21: every step that enters Configuring leaves a fresh draft: encryption
\* off, compression off, the empty password, and an output name that is the
\* name of the candidate entered; outside Configuring no draft is kept.
C21_FreshDraftOnEntry ==
    [][ /\ (Stage' = "Configuring" /\ Stage # "Configuring")
           => /\ draft' = [encryptEnabled |-> FALSE, password |-> << >>,
                           compressEnabled |-> FALSE]
              /\ Config'.outputFileName = selectedFile'.name
              /\ Config'.password = Undefined
        /\ Stage' # "Configuring"
           => draft' = [encryptEnabled |-> FALSE, password |-> << >>,
                        compressEnabled |-> FALSE] ]_vars

C21_Witness ==
    /\ Stage = "Configuring"
    /\ event.op = "select"
    /\ pending # << >>
    /\ Head(pending).cand # selectedFile.oid
    /\ draft = InitialDraft


\* The statuses recorded in a collection under id c (none when c is not in it).
StatusesOf(collection, c) ==
    { collection[i].status :
        i \in { j \in DOMAIN collection : collection[j].id = c } }

\* C22: in every step and for every id: a record with status success keeps it
\* or leaves the collection, a record with status error keeps it or leaves the
\* collection, an id that has left the collection never returns, and the
\* records a step adds carry ids never used before, with status uploading or
\* error; no id is carried by two records.
C22_StatusMovesForward ==
    [][ \A c \in 1..MaxIds :
          LET before == StatusesOf(files, c)
              after == StatusesOf(files', c)
          IN  /\ "success" \in before => after \subseteq {"success"}
              /\ "error" \in before => after \subseteq {"error"}
              /\ (before = {} /\ c < nextId) => after = {}
              /\ (before = {} /\ after # {})
                 => (c >= nextId /\ c < nextId' /\ after \subseteq {"uploading", "error"})
              /\ Cardinality({ i \in DOMAIN files' : files'[i].id = c }) <= 1 ]_vars

C22_Witness ==
    \E i, j \in DOMAIN files :
        /\ files[i].id < files[j].id
        /\ files[i].file.name = files[j].file.name
        /\ files[i].file.size = files[j].file.size
        /\ files[i].file.type = files[j].file.type
        /\ files[i].status = "success"
        /\ files[j].status = "uploading"
        /\ files[j].progress > 0


\* C23: every record of the collection has a progress that is one of 0, 10,
\* ..., 100; status success goes with progress 100, status uploading with a
\* progress below 100, and a record rejected at intake has progress 0.
C23_ProgressRange ==
    \A i \in DOMAIN files :
        /\ files[i].progress \in { 10 * n : n \in 0..10 }
        /\ files[i].status = "success" => files[i].progress = 100
        /\ files[i].status = "uploading" => files[i].progress < 100
        /\ files[i].status = "error" => files[i].progress = 0
        /\ files[i].status \in {"success", "uploading", "error"}

C23_Witness ==
    \E i, j \in DOMAIN files :
        /\ files[i].status = "error"
        /\ files[i].progress = 0
        /\ files[j].status = "uploading"
        /\ files[j].progress = 90


\* Candidate c has a record in the collection.
InCollection(c) == \E i \in DOMAIN files : files[i].id = c

WithoutIndex(collection, i) ==
    SubSeq(collection, 1, i - 1) \o SubSeq(collection, i + 1, Len(collection))

\* C25: a tick of the interval of one candidate leaves every record of another
\* id as it is and the collection in its order and length; the removal of one
\* record leaves all other records as they are, in their order, and their
\* intervals running with their counts; an intake appends to the collection
\* and leaves the records and intervals that exist as they are.
C25_TrackersIndependent ==
    [][ /\ event'.op = "tick" => \A t \in timers :
            UploadTick(t)
            => /\ Len(files') = Len(files)
               /\ \A i \in DOMAIN files :
                    /\ files'[i].id = files[i].id
                    /\ files[i].id # t.id => files'[i] = files[i]
               /\ \A u \in timers : u.id # t.id => u \in timers'
        /\ event'.op = "remove" => \A i \in DOMAIN files :
            removeFile(i)
            => /\ files' = WithoutIndex(files, i)
               /\ \A u \in timers : u.id # files[i].id => u \in timers'
               /\ { u.id : u \in timers' } = { u.id : u \in timers }
        /\ event'.op = "files" => \A batch \in Batches :
            handleFiles(batch)
            => /\ SubSeq(files', 1, Len(files)) = files
               /\ Len(files') = Len(files) + Len(batch)
               /\ timers \subseteq timers' ]_vars

C25_Witness ==
    /\ event.op = "remove"
    /\ event.res = "uploading"
    /\ Len(files) = 1
    /\ files[1].status = "uploading"
    /\ files[1].progress = 20
    /\ files[1].id > event.id
    /\ \E t \in timers : t.removed /\ t.id = event.id /\ t.progress = 50


\* C26: a record has status error exactly when validateFile rejects its file,
\* and its error is then that rejection message; a record of an accepted file
\* is uploading or success with no error, in every state, whatever ticks and
\* removals have happened; no other error value occurs.
C26_TrackerNeverFails ==
    \A i \in DOMAIN files :
        /\ (files[i].status = "error") <=> (validateFile(files[i].file) # Null)
        /\ files[i].error = validateFile(files[i].file)
        /\ files[i].error \in {Null, TypeNotAllowed, SizeExceeds}
        /\ validateFile(files[i].file) = Null
           => files[i].status \in {"uploading", "success"}

C26_Witness ==
    /\ event.op = "tick"
    /\ event.res = "removed"
    /\ \E i \in DOMAIN files :
        /\ files[i].status = "success"
        /\ validateFile(files[i].file) = Null
    /\ timers = {}


\* C27: an intake of a batch appends one record per file, in selection order,
\* each decided by validateFile on that file alone: a rejected file gets status
\* error with its reason, progress 0 and no interval; an accepted file gets
\* status uploading, progress 0, no error and an interval of its own at count
\* 0; the stage, the page and the active candidate stay as they are; and no
\* interval ever runs for a record with status error.
C27_IntakePerFile ==
    [][ /\ event'.op = "files" => \A batch \in Batches :
            handleFiles(batch)
            => /\ Len(files') = Len(files) + Len(batch)
               /\ SubSeq(files', 1, Len(files)) = files
               /\ \A k \in DOMAIN batch :
                    LET record == files'[Len(files) + k]
                        accepted == validateFile(batch[k]) = Null
                    IN  /\ record.file.name = batch[k].name
                        /\ record.file.size = batch[k].size
                        /\ record.file.type = batch[k].type
                        /\ record.progress = 0
                        /\ record.error = validateFile(batch[k])
                        /\ record.status = IF accepted THEN "uploading" ELSE "error"
                        /\ accepted
                           <=> [id |-> record.id, progress |-> 0, removed |-> FALSE]
                                  \in timers'
                        /\ ~accepted => \A t \in timers' : t.id # record.id
               /\ Cardinality(timers' \ timers)
                     = Cardinality({ k \in DOMAIN batch : validateFile(batch[k]) = Null })
               /\ Stage' = Stage
               /\ appVars' = appVars
        /\ \A i \in DOMAIN files' : \A t \in timers' :
            files'[i].status = "error" => t.id # files'[i].id ]_vars

C27_Witness ==
    /\ event.op = "files"
    /\ Len(files) = 2
    /\ files[1].status = "error"
    /\ files[1].error = TypeNotAllowed
    /\ files[2].status = "uploading"
    /\ files[2].progress = 0
    /\ timers = {[id |-> files[2].id, progress |-> 0, removed |-> FALSE]}


\* C28: whenever the stage is Completed (the complete page is rendered) a
\* candidate is active: selectedFile is a file that was taken in, and it is
\* the one whose name the complete page shows.
C28_CompletedHasCandidate ==
    Stage = "Completed"
    => /\ selectedFile # NoFile
       /\ selectedFile.oid \in 1..(nextId - 1)
       /\ isLoggedIn
       /\ currentPage = "complete"

C28_Witness ==
    /\ Stage = "Completed"
    /\ event.op = "timeout"
    /\ event.res = "ended"
    /\ event.id # selectedFile.oid


\* C29: whenever the stage is Intake (the upload page is rendered) no
\* candidate is active: selectedFile is null.
C29_IntakeHasNoCandidate ==
    Stage = "Intake" => selectedFile = NoFile


\* C30: a submitted configuration has a password exactly when its encrypt is
\* true: with encryption off the password is undefined whatever was typed
\* before, and with encryption on it is the password of the draft as typed,
\* which has at least 6 characters.
C30_PasswordIffEncrypt ==
    (event.op = "save" /\ event.res = "Ok")
    => /\ event.cfg # {}
       /\ \A config \in event.cfg :
            /\ config.encrypt = draft.encryptEnabled
            /\ config.encrypt <=> (config.password # Undefined)
            /\ config.encrypt
               => /\ config.password = draft.password
                  /\ Len(config.password) >= 6
            /\ ~config.encrypt => config.password = Undefined

C30_Witness ==
    /\ event.op = "save"
    /\ event.res = "Ok"
    /\ ~draft.encryptEnabled
    /\ Len(draft.password) >= 6
    /\ \A config \in event.cfg : config.password = Undefined


\* C31: "Reset to Default", from whatever draft, leaves the draft with
\* encryption off, the empty password and compression off, which is
\* submittable; it leaves the stage, the page, the active candidate and the
\* pending timeouts as they are; and a reset that follows a reset changes
\* nothing.
C31_ResetRestoresDraft ==
    [][ event'.op = "reset"
        => /\ handleReset
           /\ draft' = [encryptEnabled |-> FALSE, password |-> << >>,
                        compressEnabled |-> FALSE]
           /\ canProceed'
           /\ Stage' = Stage
           /\ Stage = "Configuring"
           /\ appVars' = appVars
           /\ pending' = pending
           /\ event.op = "reset" => draft' = draft ]_vars

C31_Witness ==
    /\ event.op = "reset"
    /\ Stage = "Configuring"
    /\ draft = InitialDraft
    /\ canProceed
    /\ pending # << >>
    /\ pending[Len(pending)].cand = selectedFile.oid


\* C32: while isLoggedIn is false the login page is rendered, so no stage is
\* presented, whatever currentPage holds, and the only steps are a login and
\* the callbacks of timeouts scheduled earlier: no select, save, cancel,
\* process-another, intake, removal or draft edit; after a login, and until
\* the next user intent, the stage is Intake and no file is selected.
C32_SessionGateDominates ==
    [][ /\ ~isLoggedIn
           => /\ View = "login"
              /\ Stage = "None"
              /\ event'.op \in {"login", "timeout"}
              /\ selectedFile' = selectedFile
        /\ event'.user = "login"
           => /\ isLoggedIn'
              /\ Stage' = "Intake"
              /\ selectedFile' = NoFile ]_vars

C32_Witness ==
    /\ event.op = "login"
    /\ isLoggedIn
    /\ currentPage = "complete"
    /\ Stage = "Intake"
    /\ selectedFile = NoFile

====
